---- MODULE Spec2Model ----
(***************************************************************************)
(* Model of logsplit.py: the LogSplitter pattern matcher (extract_severity *)
(* and extract_timestamp), the two filter passes (split_by_severity and    *)
(* split_by_timerange), parse_datetime and the driver main().              *)
(*                                                                         *)
(* Text is modelled at character level: a string is a sequence of          *)
(* one-character strings, so that the regular expressions, str.upper() and *)
(* datetime.strptime are computed the way Python computes them.            *)
(***************************************************************************)
EXTENDS Integers, Sequences, FiniteSets, TLC

(***************************************************************************)
(* Characters                                                              *)
(***************************************************************************)

\* U+0130 LATIN CAPITAL LETTER I WITH DOT ABOVE and U+0131 LATIN SMALL
\* LETTER DOTLESS I: the two non-ASCII letters that re.IGNORECASE lets the
\* pattern letter I match (no token holds S or K, the other two such letters).
DottedI == "U+0130"

DotlessI == "U+0131"

Digits == <<"0", "1", "2", "3", "4", "5", "6", "7", "8", "9">>

LowerLetters ==
    <<"a", "b", "c", "d", "e", "f", "g", "h", "i", "j", "k", "l", "m",
      "n", "o", "p", "q", "r", "s", "t", "u", "v", "w", "x", "y", "z">>

UpperLetters ==
    <<"A", "B", "C", "D", "E", "F", "G", "H", "I", "J", "K", "L", "M",
      "N", "O", "P", "Q", "R", "S", "T", "U", "V", "W", "X", "Y", "Z">>

Range(f) == {f[i] : i \in DOMAIN f}

IsDigit(c) == c \in Range(Digits)

IsSpace(c) == c \in {" ", "\t"}

\* \w of a str pattern: alphanumerics (Unicode) and the underscore.
IsWordChar(c) ==
    \/ c \in Range(Digits)
    \/ c \in Range(LowerLetters) \cup Range(UpperLetters)
    \/ c \in {DottedI, DotlessI, "_"}

DigitVal(c) == (CHOOSE i \in DOMAIN Digits : Digits[i] = c) - 1

\* the simple lower-case mapping the regex engine applies under IGNORECASE
\* (U+0130 lowers to i), with the extra equivalence i ~ U+0131
ReLower(c) ==
    IF c \in Range(UpperLetters)
    THEN LowerLetters[CHOOSE i \in DOMAIN UpperLetters : UpperLetters[i] = c]
    ELSE IF c \in {DottedI, DotlessI} THEN "i" ELSE c

\* str.upper() on one character: U+0131 uppers to I, U+0130 stays itself
CharUpper(c) ==
    IF c \in Range(LowerLetters)
    THEN UpperLetters[CHOOSE i \in DOMAIN LowerLetters : LowerLetters[i] = c]
    ELSE IF c = DotlessI THEN "I" ELSE c

StrUpper(s) == [i \in DOMAIN s |-> CharUpper(s[i])]

\* Optional values
None == [some |-> FALSE]

Some(v) == [some |-> TRUE, val |-> v]

(***************************************************************************)
(* Severity                                                                *)
(***************************************************************************)

\* the alternation of severity_pattern, in its order; the same eight names
\* are the keys of SEVERITY_LEVELS and the choices of --severity
SeverityTokens ==
    << <<"T","R","A","C","E">>,
       <<"D","E","B","U","G">>,
       <<"I","N","F","O">>,
       <<"W","A","R","N">>,
       <<"W","A","R","N","I","N","G">>,
       <<"E","R","R","O","R">>,
       <<"F","A","T","A","L">>,
       <<"C","R","I","T","I","C","A","L">> >>

SEVERITY_LEVELS == << 0, 1, 2, 3, 3, 4, 5, 5 >>

\* SEVERITY_LEVELS.get(key, default)
SeverityLevelsGet(key, default) ==
    IF \E k \in DOMAIN SeverityTokens : SeverityTokens[k] = key
    THEN SEVERITY_LEVELS[CHOOSE k \in DOMAIN SeverityTokens : SeverityTokens[k] = key]
    ELSE default

\* \b at gap p of the line (between characters p-1 and p)
WordBoundary(line, p) ==
    LET before == p > 1 /\ IsWordChar(line[p - 1])
        after == p <= Len(line) /\ IsWordChar(line[p])
    IN before # after

\* the token matches at position i, ignoring case
TokenMatchesAt(line, i, tok) ==
    /\ i + Len(tok) - 1 <= Len(line)
    /\ \A k \in DOMAIN tok : ReLower(line[i + k - 1]) = ReLower(tok[k])

\* \b(alt)\b succeeds at position i with alternative k
SeverityAltAt(line, i, k) ==
    /\ WordBoundary(line, i)
    /\ TokenMatchesAt(line, i, SeverityTokens[k])
    /\ WordBoundary(line, i + Len(SeverityTokens[k]))

SeverityMatchAt(line, i) == \E k \in DOMAIN SeverityTokens : SeverityAltAt(line, i, k)

\* re.search: leftmost position, first alternative that succeeds there;
\* the result is match.group(1).upper()
SeveritySearch(line) ==
    IF \E i \in DOMAIN line : SeverityMatchAt(line, i)
    THEN LET i == CHOOSE p \in DOMAIN line :
                      /\ SeverityMatchAt(line, p)
                      /\ \A q \in 1..(p - 1) : ~SeverityMatchAt(line, q)
             k == CHOOSE a \in DOMAIN SeverityTokens :
                      /\ SeverityAltAt(line, i, a)
                      /\ \A b \in 1..(a - 1) : ~SeverityAltAt(line, i, b)
         IN Some(StrUpper(SubSeq(line, i, i + Len(SeverityTokens[k]) - 1)))
    ELSE None

(***************************************************************************)
(* datetime                                                                *)
(***************************************************************************)

IsLeap(y) == (y % 4 = 0 /\ y % 100 # 0) \/ y % 400 = 0

DaysInMonth(y, m) ==
    IF m = 2 THEN (IF IsLeap(y) THEN 29 ELSE 28)
    ELSE IF m \in {4, 6, 9, 11} THEN 30 ELSE 31

\* the fields of a datetime, most significant first
DatetimeFields(t) == <<t.year, t.month, t.day, t.hour, t.minute, t.second, t.microsecond>>

\* datetime.__lt__ and datetime.__le__ of naive datetimes
DatetimeLt(a, b) ==
    LET fa == DatetimeFields(a)
        fb == DatetimeFields(b)
    IN \E k \in 1..7 : fa[k] < fb[k] /\ \A j \in 1..(k - 1) : fa[j] = fb[j]

DatetimeLe(a, b) == a = b \/ DatetimeLt(a, b)

(***************************************************************************)
(* datetime.strptime                                                       *)
(***************************************************************************)

NumericDirectives == {"%Y", "%m", "%d", "%H", "%M", "%S", "%f"}

\* the lengths the regex of a directive can consume, in the order its
\* alternatives are tried
DirectiveWidths(dir) ==
    IF dir = "%Y" THEN <<4>>
    ELSE IF dir = "%f" THEN <<6, 5, 4, 3, 2, 1>>
    ELSE <<2, 1>>

RECURSIVE DigitsValue(_)
DigitsValue(chunk) ==
    IF Len(chunk) = 0 THEN 0
    ELSE 10 * DigitsValue(SubSeq(chunk, 1, Len(chunk) - 1)) + DigitVal(chunk[Len(chunk)])

RECURSIVE Pow10(_)
Pow10(n) == IF n = 0 THEN 1 ELSE 10 * Pow10(n - 1)

AllDigits(chunk) == \A k \in DOMAIN chunk : IsDigit(chunk[k])

\* the value the directive's regex group yields on this text, -1 when no
\* alternative of the group matches the text as a whole
\*   %m 1[0-2]|0[1-9]|[1-9]     %d 3[0-1]|[1-2]\d|0[1-9]|[1-9]| [1-9]
\*   %H 2[0-3]|[0-1]\d|\d       %M [0-5]\d|\d      %S 6[0-1]|[0-5]\d|\d
\*   %Y \d\d\d\d                %f [0-9]{1,6} (right-padded to six digits)
DirectiveValue(dir, chunk) ==
    IF dir = "%d" /\ Len(chunk) = 2 /\ chunk[1] = " "
    THEN (IF IsDigit(chunk[2]) /\ chunk[2] # "0" THEN DigitVal(chunk[2]) ELSE -1)
    ELSE IF ~AllDigits(chunk) THEN -1
    ELSE LET v == DigitsValue(chunk)
             two == Len(chunk) = 2
         IN IF dir = "%Y" THEN v
            ELSE IF dir = "%f" THEN v * Pow10(6 - Len(chunk))
            ELSE IF dir = "%m" THEN (IF v >= 1 /\ v <= (IF two THEN 12 ELSE 9) THEN v ELSE -1)
            ELSE IF dir = "%d" THEN (IF v >= 1 /\ v <= (IF two THEN 31 ELSE 9) THEN v ELSE -1)
            ELSE IF dir = "%H" THEN (IF v <= (IF two THEN 23 ELSE 9) THEN v ELSE -1)
            ELSE IF dir = "%M" THEN (IF v <= (IF two THEN 59 ELSE 9) THEN v ELSE -1)
            ELSE (IF v <= (IF two THEN 61 ELSE 9) THEN v ELSE -1)

\* length of the run of whitespace that starts at position i
RECURSIVE SpaceRun(_, _)
SpaceRun(s, i) == IF i <= Len(s) /\ IsSpace(s[i]) THEN 1 + SpaceRun(s, i + 1) ELSE 0

StrptimeDefaults == [Y |-> 1900, m |-> 1, d |-> 1, H |-> 0, M |-> 0, S |-> 0, f |-> 0]

DirectiveField(dir) ==
    IF dir = "%Y" THEN "Y" ELSE IF dir = "%m" THEN "m" ELSE IF dir = "%d" THEN "d"
    ELSE IF dir = "%H" THEN "H" ELSE IF dir = "%M" THEN "M"
    ELSE IF dir = "%S" THEN "S" ELSE "f"

NoMatch == [ok |-> FALSE]

\* the regex built from the format, matched at the start of the text
\* (re.match): item j of the format at position i of the text.  A blank of
\* the format is \s+; in every format used here it is followed by %H, so
\* the run of whitespace is consumed whole.
RECURSIVE StrptimeMatch(_, _, _, _, _)
RECURSIVE StrptimeWidths(_, _, _, _, _, _)
StrptimeMatch(s, i, fmt, j, acc) ==
    IF j > Len(fmt) THEN [ok |-> TRUE, end |-> i, fields |-> acc]
    ELSE IF fmt[j] \in NumericDirectives THEN StrptimeWidths(s, i, fmt, j, acc, 1)
    ELSE IF fmt[j] = " "
         THEN (IF SpaceRun(s, i) >= 1 THEN StrptimeMatch(s, i + SpaceRun(s, i), fmt, j + 1, acc)
               ELSE NoMatch)
    ELSE IF i <= Len(s) /\ s[i] = fmt[j] THEN StrptimeMatch(s, i + 1, fmt, j + 1, acc)
    ELSE NoMatch

StrptimeWidths(s, i, fmt, j, acc, w) ==
    LET widths == DirectiveWidths(fmt[j])
    IN IF w > Len(widths) THEN NoMatch
       ELSE LET n == widths[w]
                v == IF i + n - 1 <= Len(s)
                     THEN DirectiveValue(fmt[j], SubSeq(s, i, i + n - 1)) ELSE -1
                rest == IF v >= 0
                        THEN StrptimeMatch(s, i + n, fmt, j + 1,
                                           [acc EXCEPT ![DirectiveField(fmt[j])] = v])
                        ELSE NoMatch
            IN IF rest.ok THEN rest ELSE StrptimeWidths(s, i, fmt, j, acc, w + 1)

\* the datetime built from the groups of the match, None standing for the
\* ValueError of strptime: no match, unconverted data, or field values the
\* datetime constructor rejects
DatetimeOfMatch(found, length) ==
    IF ~found.ok THEN None
    ELSE IF found.end # length + 1 THEN None
    ELSE LET f == found.fields
         IN IF f.Y < 1 \/ f.d > DaysInMonth(f.Y, f.m) \/ f.S > 59 THEN None
            ELSE Some([year |-> f.Y, month |-> f.m, day |-> f.d, hour |-> f.H,
                       minute |-> f.M, second |-> f.S, microsecond |-> f.f])

\* datetime.strptime(s, fmt)
strptime(s, fmt) == DatetimeOfMatch(StrptimeMatch(s, 1, fmt, 1, StrptimeDefaults), Len(s))

(***************************************************************************)
(* Timestamp extraction                                                    *)
(***************************************************************************)

TimePart == <<"\\s+", "\\d", "\\d", ":", "\\d", "\\d", ":", "\\d", "\\d", "(?:\\.\\d{3})?">>

TIMESTAMP_PATTERNS ==
    << <<"\\d", "\\d", "\\d", "\\d", "-", "\\d", "\\d", "-", "\\d", "\\d">> \o TimePart,
       <<"\\d", "\\d", "\\d", "\\d", "/", "\\d", "\\d", "/", "\\d", "\\d">> \o TimePart,
       <<"\\d", "\\d", "/", "\\d", "\\d", "/", "\\d", "\\d", "\\d", "\\d">> \o TimePart >>

\* the pattern matched at position i of the line from its item j on:
\* the position after the match, 0 when it fails
RECURSIVE PatternEnd(_, _, _, _)
PatternEnd(line, i, pat, j) ==
    IF j > Len(pat) THEN i
    ELSE IF pat[j] = "(?:\\.\\d{3})?"
         THEN (IF /\ i + 3 <= Len(line)
                  /\ line[i] = "."
                  /\ AllDigits(SubSeq(line, i + 1, i + 3))
               THEN PatternEnd(line, i + 4, pat, j + 1)
               ELSE PatternEnd(line, i, pat, j + 1))
    ELSE IF pat[j] = "\\s+"
         THEN (IF SpaceRun(line, i) >= 1
               THEN PatternEnd(line, i + SpaceRun(line, i), pat, j + 1) ELSE 0)
    ELSE IF pat[j] = "\\d"
         THEN (IF i <= Len(line) /\ IsDigit(line[i])
               THEN PatternEnd(line, i + 1, pat, j + 1) ELSE 0)
    ELSE IF i <= Len(line) /\ line[i] = pat[j] THEN PatternEnd(line, i + 1, pat, j + 1)
    ELSE 0

\* pattern.search(line): match.group(1) of the leftmost match, or None
PatternSearch(line, pat) ==
    IF \E i \in DOMAIN line : PatternEnd(line, i, pat, 1) # 0
    THEN LET i == CHOOSE p \in DOMAIN line :
                      /\ PatternEnd(line, p, pat, 1) # 0
                      /\ \A q \in 1..(p - 1) : PatternEnd(line, q, pat, 1) = 0
         IN Some(SubSeq(line, i, PatternEnd(line, i, pat, 1) - 1))
    ELSE None

\* the list "formats" of extract_timestamp
TimestampFormats ==
    << <<"%Y", "-", "%m", "-", "%d", " ", "%H", ":", "%M", ":", "%S", ".", "%f">>,
       <<"%Y", "-", "%m", "-", "%d", " ", "%H", ":", "%M", ":", "%S">>,
       <<"%Y", "/", "%m", "/", "%d", " ", "%H", ":", "%M", ":", "%S", ".", "%f">>,
       <<"%Y", "/", "%m", "/", "%d", " ", "%H", ":", "%M", ":", "%S">>,
       <<"%m", "/", "%d", "/", "%Y", " ", "%H", ":", "%M", ":", "%S", ".", "%f">>,
       <<"%m", "/", "%d", "/", "%Y", " ", "%H", ":", "%M", ":", "%S">> >>

\* the loop "for fmt in formats: try: return strptime ... except ValueError: continue"
RECURSIVE TryFormats(_, _, _)
TryFormats(text, formats, k) ==
    IF k > Len(formats) THEN None
    ELSE IF strptime(text, formats[k]).some THEN strptime(text, formats[k])
    ELSE TryFormats(text, formats, k + 1)

\* the loop over compiled_patterns if it returned None as soon as a pattern
\* matched a text that no format parses
RECURSIVE ExtractTimestampFirstMatchOnly(_, _)
ExtractTimestampFirstMatchOnly(line, p) ==
    IF p > Len(TIMESTAMP_PATTERNS) THEN None
    ELSE LET match == PatternSearch(line, TIMESTAMP_PATTERNS[p])
         IN IF match.some THEN TryFormats(match.val, TimestampFormats, 1)
            ELSE ExtractTimestampFirstMatchOnly(line, p + 1)

\* the loop over compiled_patterns from pattern p on: a pattern that matches
\* but whose text no format parses falls through to the next pattern
RECURSIVE ExtractTimestampFrom(_, _)
ExtractTimestampFrom(line, p) ==
    IF p > Len(TIMESTAMP_PATTERNS) THEN None
    ELSE LET match == PatternSearch(line, TIMESTAMP_PATTERNS[p])
             parsed == IF match.some THEN TryFormats(match.val, TimestampFormats, 1) ELSE None
         IN IF parsed.some THEN parsed ELSE ExtractTimestampFrom(line, p + 1)

\* the list "formats" of parse_datetime
DatetimeFormats ==
    << <<"%Y", "-", "%m", "-", "%d", " ", "%H", ":", "%M", ":", "%S", ".", "%f">>,
       <<"%Y", "-", "%m", "-", "%d", " ", "%H", ":", "%M", ":", "%S">>,
       <<"%Y", "-", "%m", "-", "%d", " ", "%H", ":", "%M">>,
       <<"%Y", "-", "%m", "-", "%d">> >>

(***************************************************************************)
(* Input texts                                                             *)
(***************************************************************************)

\* the log lines the input files are made of
LinePool ==
    << \* 2025-06-28 09:00:00 ERROR disk
       <<"2","0","2","5","-","0","6","-","2","8"," ","0","9",":","0","0",":",
         "0","0"," ","E","R","R","O","R"," ","d","i","s","k">>,
       \* 2025-06-28 10:00:00 info ok
       <<"2","0","2","5","-","0","6","-","2","8"," ","1","0",":","0","0",":",
         "0","0"," ","i","n","f","o"," ","o","k">>,
       \* 2025-06-28 09:30:05.123 warn then ERROR
       <<"2","0","2","5","-","0","6","-","2","8"," ","0","9",":","3","0",":",
         "0","5",".","1","2","3"," ","w","a","r","n"," ","t","h","e","n"," ",
         "E","R","R","O","R">>,
       \* 2025-06-28 10:00:00.001 FATAL late
       <<"2","0","2","5","-","0","6","-","2","8"," ","1","0",":","0","0",":",
         "0","0",".","0","0","1"," ","F","A","T","A","L"," ","l","a","t","e">>,
       \* no severity here
       <<"n","o"," ","s","e","v","e","r","i","t","y"," ","h","e","r","e">>,
       \* 2025-13-01 10:00:00 2025/06/28 09:30:05 DEBUG x
       <<"2","0","2","5","-","1","3","-","0","1"," ","1","0",":","0","0",":",
         "0","0"," ","2","0","2","5","/","0","6","/","2","8"," ","0","9",":",
         "3","0",":","0","5"," ","D","E","B","U","G"," ","x">>,
       \* 06/28/2025 09:15:00 CRITICAL_ERROR WARNING
       <<"0","6","/","2","8","/","2","0","2","5"," ","0","9",":","1","5",":",
         "0","0"," ","C","R","I","T","I","C","A","L","_","E","R","R","O","R",
         " ","W","A","R","N","I","N","G">>,
       \* 2025/06/28 09:15:00 trace 2025-06-28 11:00:00
       <<"2","0","2","5","/","0","6","/","2","8"," ","0","9",":","1","5",":",
         "0","0"," ","t","r","a","c","e"," ","2","0","2","5","-","0","6","-",
         "2","8"," ","1","1",":","0","0",":","0","0">>,
       \* <U+0130>NFO started 2025-06-28 09:10:00
       <<DottedI,"N","F","O"," ","s","t","a","r","t","e","d"," ","2","0","2",
         "5","-","0","6","-","2","8"," ","0","9",":","1","0",":","0","0">>,
       \* 2025-02-30 09:30:00 Debug
       <<"2","0","2","5","-","0","2","-","3","0"," ","0","9",":","3","0",":",
         "0","0"," ","D","e","b","u","g">>,
       \* 12025-06-28  09:30:60 <U+0131>nfo
       <<"1","2","0","2","5","-","0","6","-","2","8"," "," ","0","9",":","3",
         "0",":","6","0"," ",DotlessI,"n","f","o">>,
       \* x2025-06-28<TAB>09:59:59.999 Fatal
       <<"x","2","0","2","5","-","0","6","-","2","8","\t","0","9",":","5","9",
         ":","5","9",".","9","9","9"," ","F","a","t","a","l">> >>

\* the texts given to --start and --end
RangeStart == <<"2","0","2","5","-","0","6","-","2","8"," ","0","9",":","0","0",":",
              "0","0">>

RangeEnd == <<"2","0","2","5","-","0","6","-","2","8"," ","1","0",":","0","0",":",
            "0","0">>

DateOnly == <<"2","0","2","5","-","0","6","-","2","8">>

WithMicros == <<"2","0","2","5","-","0","6","-","2","8"," ","0","9",":","3","0",":",
              "0","5",".","1","2","3">>

MinuteForm == <<"2","0","2","5","-","0","6","-","2","8"," ","0","9",":","0","0">>

Slashed == <<"2","0","2","5","/","0","6","/","2","8">>

BoundaryTexts == {RangeStart, RangeEnd, DateOnly, WithMicros, MinuteForm, Slashed}

(***************************************************************************)
(* The functions of the program on these texts.  Each is tabulated once    *)
(* over the texts of the model, so that a step looks its value up instead  *)
(* of matching the text again.                                             *)
(***************************************************************************)

SeverityOfLine == [line \in Range(LinePool) |-> SeveritySearch(line)]

TimestampOfLine == [line \in Range(LinePool) |-> ExtractTimestampFrom(line, 1)]

DatetimeOfText == [text \in BoundaryTexts |-> TryFormats(text, DatetimeFormats, 1)]

\* extract_severity(line): None, or the matched text in upper case
extract_severity(line) == SeverityOfLine[line]

\* extract_timestamp(line): None, or the datetime
extract_timestamp(line) == TimestampOfLine[line]

\* parse_datetime: None stands for the ValueError it raises
parse_datetime(datetime_str) == DatetimeOfText[datetime_str]

\* the per-line test of split_by_severity
SeverityWrites(line, min_level) ==
    LET severity == extract_severity(line)
    IN \/ severity.some /\ SeverityLevelsGet(severity.val, 0) >= min_level
       \/ ~severity.some /\ min_level <= 1

\* the test of split_by_timerange if end_time were excluded from the range
TimerangeWritesEndExcluded(line, start_time, end_time) ==
    LET timestamp == extract_timestamp(line)
    IN /\ timestamp.some
       /\ DatetimeLe(start_time, timestamp.val)
       /\ DatetimeLt(timestamp.val, end_time)

\* the per-line test of split_by_timerange
TimerangeWrites(line, start_time, end_time) ==
    LET timestamp == extract_timestamp(line)
    IN /\ timestamp.some
       /\ DatetimeLe(start_time, timestamp.val)
       /\ DatetimeLe(timestamp.val, end_time)

(***************************************************************************)
(* Bounds                                                                  *)
(***************************************************************************)

\* lines of the file given as a single-file input
MaxLines == 2

\* I/O failures injected in one behaviour
MaxFaults == 2

\* runs of main() over the same file system with the same arguments
MaxRuns == 2

(***************************************************************************)
(* Paths, names and the file system                                        *)
(***************************************************************************)

NoName == [stem |-> "", tags |-> <<>>, ext |-> ""]

FileName(stem, ext) == [stem |-> stem, tags |-> <<>>, ext |-> ext]

Path(dir, name) == [dir |-> dir, name |-> name]

DirPath(dir) == Path(dir, NoName)

InputDir == "in"

MissingDir == "missing"

\* args.output
OutputDir == "out"

\* temp_dir = os.path.join(args.output, 'temp')
TempDir == "out/temp"

\* the directories a recursive walk of a directory visits
SubDirs(dir) == IF dir = OutputDir THEN {OutputDir, TempDir} ELSE {dir}

\* os.makedirs(dir, exist_ok=True): the directory and its parents
MakeDirs(dir) == IF dir = TempDir THEN {OutputDir, TempDir} ELSE {dir}

IsFile(fs, path) == path \in DOMAIN fs

IsDir(ds, path) == path.name = NoName /\ path.dir \in ds

\* str.lower() of an ASCII name
StrLower(s) ==
    [i \in DOMAIN s |->
        IF s[i] \in Range(UpperLetters)
        THEN LowerLetters[CHOOSE k \in DOMAIN UpperLetters : UpperLetters[k] = s[i]]
        ELSE s[i]]

\* "_severity_{min_severity.lower()}_and_above"
SeverityTag(min_severity) ==
    [kind |-> "severity", level |-> StrLower(min_severity), from |-> <<>>, to |-> <<>>]

\* strftime('%Y%m%d_%H%M%S'): the microseconds are not part of the name
strftime(t) == <<t.year, t.month, t.day, t.hour, t.minute, t.second>>

\* "_timerange_{start_str}_to_{end_str}"
TimerangeTag(start_time, end_time) ==
    [kind |-> "timerange", level |-> <<>>,
     from |-> strftime(start_time), to |-> strftime(end_time)]

\* os.path.join(output_dir, f"{base_name}{tag}.log") with
\* base_name = os.path.splitext(os.path.basename(log_file))[0]
OutputFile(output_dir, log_file, tag) ==
    Path(output_dir,
         [stem |-> log_file.name.stem, tags |-> Append(log_file.name.tags, tag), ext |-> "log"])

\* the extensions find_log_files globs for, in its order
Extensions == <<"log", "txt", "out", "err">>

\* glob.glob(os.path.join(input_path, '**', ext), recursive=True), as a set
Glob(fs, dir, ext) == {p \in DOMAIN fs : p.dir \in SubDirs(dir) /\ p.name.ext = ext}

\* the orders in which a glob may list its matches (directory order is
\* not specified)
Orders(S) ==
    {o \in [1..Cardinality(S) -> S] : \A i, j \in 1..Cardinality(S) : i # j => o[i] # o[j]}

PathExists(fs, ds, path) == IsFile(fs, path) \/ IsDir(ds, path)

\* find_log_files(input_path) of a path that exists: the lists it may return
find_log_files(fs, ds, input_path) ==
    IF IsFile(fs, input_path) THEN {<<input_path>>}
    ELSE {o1 \o o2 \o o3 \o o4 :
            o1 \in Orders(Glob(fs, input_path.dir, Extensions[1])),
            o2 \in Orders(Glob(fs, input_path.dir, Extensions[2])),
            o3 \in Orders(Glob(fs, input_path.dir, Extensions[3])),
            o4 \in Orders(Glob(fs, input_path.dir, Extensions[4]))}

\* the files left if only the files find_log_files lists were deleted
RmtreeListedFilesOnly(fs, dir) ==
    [p \in {q \in DOMAIN fs : q.dir # dir \/ q.name.ext \notin Range(Extensions)} |-> fs[p]]

\* shutil.rmtree(dir): the files left
Rmtree(fs, dir) == [p \in {q \in DOMAIN fs : q.dir # dir} |-> fs[p]]

\* what open(output_file, 'a') would keep of the file's former content
OpenAppend(old) == old

\* open(output_file, 'w'): what is kept of the file's former content
OpenWrite(old) == <<>>

\* what the pass would do if the exception left the loop
OnFileErrorRaise == "raise"

\* "except Exception as e: logger.error(...)" inside the loop over the
\* files: what the pass does after a file failed
OnFileError == "next file"

\* the test of main if it were "start_time > end_time"
StartAfterEnd(start_time, end_time) == DatetimeLt(end_time, start_time)

\* "if start_time >= end_time" of main
StartNotBeforeEnd(start_time, end_time) == ~DatetimeLt(start_time, end_time)

(***************************************************************************)
(* State                                                                   *)
(***************************************************************************)

VARIABLES
    args,         \* the parsed command line: input, severity, start, end
    dirs,         \* the directories that exist
    files,        \* the files that exist: path -> sequence of lines
    pc,           \* where main() is
    exit_code,    \* the exit status of the run, -1 while it runs
    log_files,    \* main's log_files
    start_time,   \* main's start_time (None until parsed)
    end_time,     \* main's end_time
    temp_files,   \* main's temp_files
    todo,         \* the files the running pass still has to process
    report,       \* what the passes of this run did, one record for each file
    faults,       \* I/O failures injected so far
    runs,         \* runs started so far
    run_files,    \* the files when this run started
    run_dirs,     \* the directories when this run started
    prev_files,   \* the files when the previous run ended
    prev_report   \* the report of the previous run

vars == <<args, dirs, files, pc, exit_code, log_files, start_time, end_time, temp_files,
          todo, report, faults, runs, run_files, run_dirs, prev_files, prev_report>>

\* both filters are requested (line 244)
Combined == args.severity.some /\ start_time.some /\ end_time.some

(***************************************************************************)
(* Initial states                                                          *)
(***************************************************************************)

Window(i, n) == SubSeq(LinePool, i, i + n - 1)

\* contents of a file given as a single-file input
Contents ==
    {<<>>} \cup {Window(w[1], w[2]) :
                 w \in {v \in (1..Len(LinePool)) \X (1..MaxLines) :
                           v[1] + v[2] - 1 <= Len(LinePool)}}

\* contents of the files of an input directory
DirContents == {Window(1, 2), Window(3, 2)}

AppLog == Path(InputDir, FileName("app", "log"))

AppTxt == Path(InputDir, FileName("app", "txt"))

SysLog == Path(InputDir, FileName("sys", "log"))

NotesMd == Path(InputDir, FileName("notes", "md"))

OldLog == Path(TempDir, FileName("old", "log"))

OldDat == Path(TempDir, FileName("old", "dat"))

\* the file system without files
NoFiles == [p \in {} |-> <<>>]

\* the input files and the --input that goes with them
InputSetups ==
    {[input |-> AppLog, fs |-> AppLog :> c] : c \in Contents}
    \cup {[input |-> DirPath(InputDir), fs |-> (AppLog :> c) @@ (NotesMd :> Window(1, 1))] :
            c \in DirContents}
    \cup {[input |-> DirPath(InputDir),
           fs |-> (AppLog :> c) @@ (second :> Window(3, 2)) @@ (NotesMd :> Window(1, 1))] :
            c \in DirContents, second \in {AppTxt, SysLog}}
    \cup {[input |-> DirPath(InputDir), fs |-> NotesMd :> Window(1, 1)],
          [input |-> DirPath(MissingDir), fs |-> NoFiles]}

\* what is in the output directory before the first run
OutputSetups ==
    {[ds |-> {}, fs |-> NoFiles],
     [ds |-> {OutputDir, TempDir}, fs |-> (OldLog :> Window(4, 1)) @@ (OldDat :> Window(5, 1))]}

Ranges ==
    {<<RangeStart, RangeEnd>>, <<DateOnly, WithMicros>>, <<MinuteForm, RangeStart>>,
     <<RangeEnd, RangeStart>>, <<Slashed, RangeEnd>>}

CombinedSeverities == {SeverityTokens[2], SeverityTokens[4], SeverityTokens[6]}

\* the command lines: (--severity, --start, --end)
ArgSets ==
    {[severity |-> Some(m), start |-> None, end |-> None] : m \in Range(SeverityTokens)}
    \cup {[severity |-> None, start |-> Some(r[1]), end |-> Some(r[2])] : r \in Ranges}
    \cup {[severity |-> Some(m), start |-> Some(r[1]), end |-> Some(r[2])] :
            m \in CombinedSeverities, r \in Ranges}
    \cup {[severity |-> None, start |-> None, end |-> None],
          [severity |-> None, start |-> Some(RangeStart), end |-> None],
          [severity |-> Some(SeverityTokens[3]), start |-> None, end |-> Some(RangeEnd)]}

Init ==
    \E in \in InputSetups, out \in OutputSetups, a \in ArgSets :
        /\ args = [input |-> in.input, severity |-> a.severity, start |-> a.start, end |-> a.end]
        /\ dirs = {InputDir} \cup out.ds
        /\ files = in.fs @@ out.fs
        /\ pc = "args"
        /\ exit_code = -1
        /\ log_files = <<>>
        /\ start_time = None
        /\ end_time = None
        /\ temp_files = <<>>
        /\ todo = <<>>
        /\ report = <<>>
        /\ faults = 0
        /\ runs = 1
        /\ run_files = in.fs @@ out.fs
        /\ run_dirs = {InputDir} \cup out.ds
        /\ prev_files = NoFiles
        /\ prev_report = <<>>

(***************************************************************************)
(* main()                                                                  *)
(***************************************************************************)

\* "return <status>" and the exits of parser.error and of the handler
Exit(status) ==
    /\ pc' = "done"
    /\ exit_code' = status

\* lines 209-219: argument validation; parser.error exits with status 2
ParseArgs ==
    /\ pc = "args"
    /\ IF \/ ~args.severity.some /\ ~(args.start.some /\ args.end.some)
          \/ args.start.some /\ ~args.end.some
          \/ args.end.some /\ ~args.start.some
       THEN Exit(2)
       ELSE pc' = "find" /\ UNCHANGED exit_code
    /\ UNCHANGED <<args, dirs, files, log_files, start_time, end_time, temp_files, todo,
                   report, faults, runs, run_files, run_dirs, prev_files, prev_report>>

\* lines 226-230: FileNotFoundError goes to the handler of line 269
FindInput ==
    /\ pc = "find"
    /\ IF ~PathExists(files, dirs, args.input)
       THEN Exit(1) /\ UNCHANGED log_files
       ELSE \E found \in find_log_files(files, dirs, args.input) :
               IF found = <<>>
               THEN Exit(1) /\ UNCHANGED log_files
               ELSE log_files' = found /\ pc' = "range" /\ UNCHANGED exit_code
    /\ UNCHANGED <<args, dirs, files, start_time, end_time, temp_files, todo,
                   report, faults, runs, run_files, run_dirs, prev_files, prev_report>>

\* lines 232-241 and the choice of the branch (lines 244, 258, 262);
\* the ValueError of parse_datetime goes to the handler of line 269
ParseRange ==
    /\ pc = "range"
    /\ IF args.start.some /\ args.end.some
       THEN LET s == parse_datetime(args.start.val)
                e == parse_datetime(args.end.val)
            IN IF ~s.some \/ ~e.some
               THEN Exit(1) /\ UNCHANGED <<start_time, end_time>>
               ELSE IF StartNotBeforeEnd(s.val, e.val)
               THEN Exit(1) /\ start_time' = s /\ end_time' = e
               ELSE /\ start_time' = s
                    /\ end_time' = e
                    /\ pc' = "timerange"
                    /\ UNCHANGED exit_code
       ELSE /\ pc' = "severity"
            /\ UNCHANGED <<exit_code, start_time, end_time>>
    /\ UNCHANGED <<args, dirs, files, log_files, temp_files, todo,
                   report, faults, runs, run_files, run_dirs, prev_files, prev_report>>

\* the output_dir main passes to split_by_timerange (lines 248, 264)
TimerangeDir == IF Combined THEN TempDir ELSE OutputDir

\* line 133: split_by_timerange is entered
BeginTimerange ==
    /\ pc = "timerange"
    /\ dirs' = dirs \cup MakeDirs(TimerangeDir)
    /\ todo' = log_files
    /\ pc' = "timerange loop"
    /\ UNCHANGED <<args, files, exit_code, log_files, start_time, end_time, temp_files,
                   report, faults, runs, run_files, run_dirs, prev_files, prev_report>>

\* line 98: min_level
MinLevel(min_severity) == SeverityLevelsGet(StrUpper(min_severity), 2)

\* lines 117-124: the test of the severity pass of this run
SeverityKeeps(line) == SeverityWrites(line, MinLevel(args.severity.val))

\* lines 152-156: the test of the time-range pass of this run
TimerangeKeeps(line) == TimerangeWrites(line, start_time.val, end_time.val)

\* the local "severity" (line 117) or "timestamp" (line 152) of a line
LineExtract(pass, line) ==
    IF pass = "severity" THEN extract_severity(line) ELSE extract_timestamp(line)

\* whether the pass writes the line (lines 119-124, 154-156)
LineWrites(pass, line) ==
    IF pass = "severity" THEN SeverityKeeps(line) ELSE TimerangeKeeps(line)

\* one file of a pass.  outcome "ok": every line is read; "open_error": one
\* of the two open() calls raises and the output file is not touched;
\* "io_error": the output file is opened, n lines are handled and the
\* exception is raised at the next one.  What was written is in the file
\* when the with block is left.
ProcessFile(pass, output_file) ==
    \E outcome \in {"ok", "open_error", "io_error"}, n \in 0..Len(files[Head(todo)]) :
        /\ outcome = "ok" => n = Len(files[Head(todo)])
        /\ outcome = "open_error" => n = 0 /\ faults < MaxFaults
        /\ outcome = "io_error" => n < Len(files[Head(todo)]) /\ faults < MaxFaults
        /\ LET lines == files[Head(todo)]
               handled == SubSeq(lines, 1, n)
               written == SelectSeq(handled, LAMBDA line : LineWrites(pass, line))
               old == IF output_file \in DOMAIN files THEN files[output_file] ELSE <<>>
           IN /\ files' = IF outcome = "open_error" THEN files
                          ELSE (output_file :> (OpenWrite(old) \o written)) @@ files
              /\ report' = Append(report,
                                  [pass |-> pass,
                                   log_file |-> Head(todo),
                                   output_file |-> output_file,
                                   outcome |-> outcome,
                                   lines |-> IF outcome = "open_error" THEN <<>> ELSE lines,
                                   extracted |-> [i \in 1..n |-> LineExtract(pass, handled[i])],
                                   written |-> written])
        /\ faults' = IF outcome = "ok" THEN faults ELSE faults + 1
        /\ IF outcome = "ok" \/ OnFileError = "next file"
           THEN todo' = Tail(todo) /\ UNCHANGED <<pc, exit_code>>
           ELSE Exit(1) /\ UNCHANGED todo

\* lines 135-161: the body of the loop of split_by_timerange for one file
TimerangeFile ==
    /\ pc = "timerange loop"
    /\ todo # <<>>
    /\ ProcessFile("timerange",
                   OutputFile(TimerangeDir, Head(todo), TimerangeTag(start_time.val, end_time.val)))
    /\ UNCHANGED <<args, dirs, log_files, start_time, end_time, temp_files,
                   runs, run_files, run_dirs, prev_files, prev_report>>

\* split_by_timerange returns
EndTimerange ==
    /\ pc = "timerange loop"
    /\ todo = <<>>
    /\ pc' = IF Combined THEN "find temp" ELSE "finish"
    /\ UNCHANGED <<args, dirs, files, exit_code, log_files, start_time, end_time, temp_files,
                   todo, report, faults, runs, run_files, run_dirs, prev_files, prev_report>>

\* line 251: temp_files = splitter.find_log_files(temp_dir)
FindTemp ==
    /\ pc = "find temp"
    /\ IF ~PathExists(files, dirs, DirPath(TempDir))
       THEN Exit(1) /\ UNCHANGED temp_files
       ELSE \E found \in find_log_files(files, dirs, DirPath(TempDir)) :
               temp_files' = found /\ pc' = "severity" /\ UNCHANGED exit_code
    /\ UNCHANGED <<args, dirs, files, log_files, start_time, end_time, todo,
                   report, faults, runs, run_files, run_dirs, prev_files, prev_report>>

\* lines 98-100: split_by_severity is entered (lines 252, 260)
BeginSeverity ==
    /\ pc = "severity"
    /\ dirs' = dirs \cup MakeDirs(OutputDir)
    /\ todo' = IF Combined THEN temp_files ELSE log_files
    /\ pc' = "severity loop"
    /\ UNCHANGED <<args, files, exit_code, log_files, start_time, end_time, temp_files,
                   report, faults, runs, run_files, run_dirs, prev_files, prev_report>>

\* lines 102-129: the body of the loop of split_by_severity for one file
SeverityFile ==
    /\ pc = "severity loop"
    /\ todo # <<>>
    /\ ProcessFile("severity",
                   OutputFile(OutputDir, Head(todo), SeverityTag(args.severity.val)))
    /\ UNCHANGED <<args, dirs, log_files, start_time, end_time, temp_files,
                   runs, run_files, run_dirs, prev_files, prev_report>>

\* split_by_severity returns
EndSeverity ==
    /\ pc = "severity loop"
    /\ todo = <<>>
    /\ pc' = IF Combined THEN "rmtree" ELSE "finish"
    /\ UNCHANGED <<args, dirs, files, exit_code, log_files, start_time, end_time, temp_files,
                   todo, report, faults, runs, run_files, run_dirs, prev_files, prev_report>>

\* lines 255-256: shutil.rmtree(temp_dir)
RemoveTemp ==
    /\ pc = "rmtree"
    /\ files' = Rmtree(files, TempDir)
    /\ dirs' = dirs \ {TempDir}
    /\ pc' = "finish"
    /\ UNCHANGED <<args, exit_code, log_files, start_time, end_time, temp_files,
                   todo, report, faults, runs, run_files, run_dirs, prev_files, prev_report>>

\* lines 266-267
Finish ==
    /\ pc = "finish"
    /\ Exit(0)
    /\ UNCHANGED <<args, dirs, files, log_files, start_time, end_time, temp_files,
                   todo, report, faults, runs, run_files, run_dirs, prev_files, prev_report>>

\* the same severity-mode command line is run again on the file system the
\* run left
Rerun ==
    /\ pc = "done"
    /\ runs < MaxRuns
    /\ args.severity.some /\ ~args.start.some /\ ~args.end.some
    /\ runs' = runs + 1
    /\ pc' = "args"
    /\ exit_code' = -1
    /\ log_files' = <<>>
    /\ start_time' = None
    /\ end_time' = None
    /\ temp_files' = <<>>
    /\ todo' = <<>>
    /\ report' = <<>>
    /\ run_files' = files
    /\ run_dirs' = dirs
    /\ prev_files' = files
    /\ prev_report' = report
    /\ UNCHANGED <<args, dirs, files, faults>>

Next ==
    \/ ParseArgs
    \/ FindInput
    \/ ParseRange
    \/ BeginTimerange
    \/ TimerangeFile
    \/ EndTimerange
    \/ FindTemp
    \/ BeginSeverity
    \/ SeverityFile
    \/ EndSeverity
    \/ RemoveTemp
    \/ Finish
    \/ Rerun

Spec == Init /\ [][Next]_vars

(***************************************************************************)
(* Properties                                                              *)
(***************************************************************************)

\* the records of the report made by one pass
ReportsOf(pass) == {i \in DOMAIN report : report[i].pass = pass}

\* the rank of a --severity value
RankOfToken(m) == SEVERITY_LEVELS[CHOOSE k \in DOMAIN SeverityTokens : SeverityTokens[k] = m]

\* the rank of the leftmost severity token of a line, matched as a whole
\* word whatever its case; -1 for a line without a token
TokenRankOfLine ==
    [line \in Range(LinePool) |->
        IF \E i \in DOMAIN line : SeverityMatchAt(line, i)
        THEN LET i == CHOOSE p \in DOMAIN line :
                          /\ SeverityMatchAt(line, p)
                          /\ \A q \in 1..(p - 1) : ~SeverityMatchAt(line, q)
             IN SEVERITY_LEVELS[CHOOSE a \in DOMAIN SeverityTokens :
                                   /\ SeverityAltAt(line, i, a)
                                   /\ \A b \in 1..(a - 1) : ~SeverityAltAt(line, i, b)]
        ELSE -1]

SeverityRule(line, m) ==
    \/ TokenRankOfLine[line] >= 0 /\ TokenRankOfLine[line] >= RankOfToken(m)
    \/ TokenRankOfLine[line] = -1 /\ RankOfToken(m) <= RankOfToken(SeverityTokens[2])

\* C1: split_by_severity writes a line iff its leftmost severity token
\* (any case) has a rank at least that of the minimum, or it has no token
\* and the minimum is DEBUG or TRACE; every other line is dropped.
C1_SeverityRule ==
    \A i \in ReportsOf("severity") :
        report[i].outcome = "ok" =>
            report[i].written =
                SelectSeq(report[i].lines, LAMBDA line : SeverityRule(line, args.severity.val))

InRange(t, lo, hi) == ~DatetimeLt(t, lo) /\ ~DatetimeLt(hi, t)

TimerangeRule(line) ==
    /\ extract_timestamp(line).some
    /\ InRange(extract_timestamp(line).val, start_time.val, end_time.val)

\* C2: split_by_timerange writes a line iff extract_timestamp yields a
\* timestamp t with start <= t <= end, both ends included; a line without
\* a timestamp is never written.
C2_InclusiveRange ==
    \A i \in ReportsOf("timerange") :
        report[i].outcome = "ok" =>
            /\ report[i].written = SelectSeq(report[i].lines, TimerangeRule)
            /\ \A k \in DOMAIN report[i].written :
                  extract_timestamp(report[i].written[k]).some

\* a file was read whole with a line stamped start and a line stamped end,
\* and both were written
C2_Witness ==
    \E i \in ReportsOf("timerange") :
        /\ report[i].outcome = "ok"
        /\ \E j, k \in DOMAIN report[i].written :
              /\ report[i].extracted[j] = start_time
              /\ extract_timestamp(report[i].written[j]) = start_time
              /\ extract_timestamp(report[i].written[k]) = end_time
        /\ Len(report[i].written) = Len(report[i].lines)

\* the severity pass of a combined run that ended well without I/O failure
CleanCombinedRun == pc = "done" /\ exit_code = 0 /\ Combined /\ faults = 0

\* C3: in a combined run each final output file holds the severity filter
\* of what the time-range filter produced from an original input file, and
\* no final output file holds a line that failed the time-range test.
C3_TimeThenSeverity ==
    CleanCombinedRun =>
        \A i \in ReportsOf("severity") :
            /\ \E j \in ReportsOf("timerange") :
                  /\ report[j].output_file = report[i].log_file
                  /\ report[i].written =
                        SelectSeq(SelectSeq(report[j].lines, TimerangeKeeps), SeverityKeeps)
            /\ \A k \in DOMAIN report[i].written : TimerangeKeeps(report[i].written[k])

\* C4: once the severity pass of a combined run has been run, the scratch
\* directory and everything in it are gone when the run ends, whether or
\* not the severity pass succeeded for every scratch file.
C4_ScratchDeleted ==
    (/\ pc = "done"
     /\ Combined
     /\ exit_code = 0 \/ ReportsOf("severity") # {})
        => /\ TempDir \notin dirs
           /\ \A p \in DOMAIN files : p.dir # TempDir

\* the severity pass failed on a scratch file, and a scratch directory that
\* held files of its own before the run is gone at the end
C4_Witness ==
    /\ pc = "done"
    /\ Combined
    /\ \E i \in ReportsOf("severity") : report[i].outcome # "ok"
    /\ OldDat \in DOMAIN run_files
    /\ TempDir \notin dirs

\* C5: when the parsed boundaries satisfy start >= end the run ends with
\* status 1 and no pass is started: no directory is created and no file is
\* opened or written.
C5_OrderingError ==
    (/\ args.start.some /\ args.end.some
     /\ parse_datetime(args.start.val).some /\ parse_datetime(args.end.val).some
     /\ ~DatetimeLt(parse_datetime(args.start.val).val, parse_datetime(args.end.val).val))
        => /\ pc \in {"args", "find", "range", "done"}
           /\ pc = "done" => exit_code = 1
           /\ report = <<>>
           /\ files = run_files
           /\ dirs = run_dirs

\* a run with start = end found its input and ended with status 1
C5_Witness ==
    /\ pc = "done"
    /\ exit_code = 1
    /\ log_files # <<>>
    /\ start_time.some /\ end_time.some
    /\ start_time = end_time
    /\ OutputDir \notin dirs

\* the files the passes of a finished run were given, in order
Processed(pass) == [k \in 1..Cardinality(ReportsOf(pass)) |->
                       report[CHOOSE i \in ReportsOf(pass) :
                                 Cardinality({j \in ReportsOf(pass) : j <= i}) = k].log_file]

\* C6: an I/O failure on one file of a pass skips that file only: every
\* file of the list is processed, a file read whole has its output, and the
\* run ends with status 0 even when files failed.
C6_FailureSkipsOneFile ==
    (pc = "done" /\ report # <<>>)
        => /\ exit_code = 0
           /\ Processed(IF args.start.some THEN "timerange" ELSE "severity") = log_files
           /\ Combined => Processed("severity") = temp_files
           /\ \A i \in DOMAIN report :
                 (/\ report[i].outcome = "ok"
                  /\ report[i].output_file.dir = OutputDir
                  /\ \A j \in (i + 1)..Len(report) :
                        report[j].output_file # report[i].output_file)
                    => /\ report[i].output_file \in DOMAIN files
                       /\ files[report[i].output_file] = report[i].written

\* the first file of a pass failed and a later file has its output
C6_Witness ==
    /\ pc = "done"
    /\ exit_code = 0
    /\ Len(report) >= 2
    /\ report[1].outcome # "ok"
    /\ report[2].outcome = "ok"
    /\ report[2].pass = report[1].pass
    /\ report[2].output_file \in DOMAIN files
    /\ files[report[2].output_file] # <<>>

\* C7: a second severity-mode run with the same input, minimum and output
\* directory leaves every output file of the first run with the same
\* content (runs without I/O failure; the input is not changed in between).
C7_Idempotent ==
    (pc = "done" /\ runs >= 2 /\ exit_code = 0 /\ faults = 0)
        => \A i \in DOMAIN prev_report :
              /\ prev_report[i].output_file \in DOMAIN files
              /\ files[prev_report[i].output_file] = prev_files[prev_report[i].output_file]

\* the second run has ended and rewrote an output file that is not empty
C7_Witness ==
    /\ pc = "done"
    /\ runs = 2
    /\ faults = 0
    /\ \E i \in DOMAIN prev_report, j \in DOMAIN report :
          /\ report[j].output_file = prev_report[i].output_file
          /\ prev_files[prev_report[i].output_file] # <<>>
          /\ Len(prev_files[prev_report[i].output_file]) < Len(prev_report[i].lines)

\* the first pattern, in list order, that matches the line (0: none), and
\* whether a format parses what it matched
FirstPatternOfLine ==
    [line \in Range(LinePool) |->
        IF \E p \in DOMAIN TIMESTAMP_PATTERNS : PatternSearch(line, TIMESTAMP_PATTERNS[p]).some
        THEN CHOOSE p \in DOMAIN TIMESTAMP_PATTERNS :
                /\ PatternSearch(line, TIMESTAMP_PATTERNS[p]).some
                /\ \A q \in 1..(p - 1) : ~PatternSearch(line, TIMESTAMP_PATTERNS[q]).some
        ELSE 0]

\* what the formats make of the leftmost match of pattern p in the line
ParseOfPattern(line, p) ==
    IF PatternSearch(line, TIMESTAMP_PATTERNS[p]).some
    THEN TryFormats(PatternSearch(line, TIMESTAMP_PATTERNS[p]).val, TimestampFormats, 1)
    ELSE None

FirstPatternParses ==
    [line \in Range(LinePool) |->
        FirstPatternOfLine[line] # 0 /\ ParseOfPattern(line, FirstPatternOfLine[line]).some]

\* C8 as stated: when what the first matching pattern matched fails every
\* format, the result is absent and the later patterns are not tried.
C8_NoFallback ==
    \A i \in ReportsOf("timerange") :
        \A k \in DOMAIN report[i].extracted :
            (FirstPatternOfLine[report[i].lines[k]] # 0 /\ ~FirstPatternParses[report[i].lines[k]])
                => report[i].extracted[k] = None

\* the parse of the leftmost match of the first pattern, in list order,
\* whose leftmost match parses; None when there is no such pattern
FallbackTimestampOfLine ==
    [line \in Range(LinePool) |->
        LET good == {p \in DOMAIN TIMESTAMP_PATTERNS : ParseOfPattern(line, p).some}
        IN IF good = {} THEN None
           ELSE ParseOfPattern(line, CHOOSE p \in good : \A q \in good : p <= q)]

\* C8 amended: the patterns are tried in list order, only the leftmost
\* match of a pattern is parsed, and a pattern whose match fails every
\* format falls through to the next pattern; the result is absent only
\* when no pattern's leftmost match parses.
C8_FallbackInListOrder ==
    \A i \in ReportsOf("timerange") :
        \A k \in DOMAIN report[i].extracted :
            report[i].extracted[k] = FallbackTimestampOfLine[report[i].lines[k]]

\* a line whose first matching pattern matched an unparsable text got the
\* timestamp of a later pattern
C8_Witness ==
    \E i \in ReportsOf("timerange") :
        \E k \in DOMAIN report[i].extracted :
            /\ FirstPatternOfLine[report[i].lines[k]] = 1
            /\ ~FirstPatternParses[report[i].lines[k]]
            /\ report[i].extracted[k].some
            /\ report[i].extracted[k] = ParseOfPattern(report[i].lines[k], 2)

\* C9: in a combined run the files given to the severity pass are exactly
\* the files this run's time-range pass wrote into the scratch directory.
C9_OnlyNewScratchFiles ==
    (Combined /\ pc \in {"severity", "severity loop", "rmtree", "finish", "done"})
        => Range(temp_files) =
              {report[i].output_file : i \in {j \in ReportsOf("timerange") :
                                                 report[j].outcome # "open_error"}}

\* C10: the lines of a final output file of a combined run are the lines
\* of the original input file that pass both tests, in their order, which
\* is also what the two filters give in the reverse order.
C10_JointPredicate ==
    CleanCombinedRun =>
        \A i \in ReportsOf("severity") :
            \E j \in ReportsOf("timerange") :
                /\ report[j].output_file = report[i].log_file
                /\ report[i].written =
                      SelectSeq(report[j].lines,
                           LAMBDA line : TimerangeKeeps(line) /\ SeverityKeeps(line))
                /\ report[i].written =
                      SelectSeq(SelectSeq(report[j].lines, SeverityKeeps), TimerangeKeeps)

====
